---- MODULE Spec2Model ----
(***************************************************************************)
(* Model of custom_components/openai_stt/stt.py: the WAV framer            *)
(* convert_pcm_to_wav and the provider method                              *)
(* LocalWhisperSTTProvider.async_process_audio_stream.                     *)
(*                                                                         *)
(* Representation.  A Python bytes object is a sequence of 0..255.  A      *)
(* Python int is unbounded, while the integers of TLC are 32 bits wide,    *)
(* so every int that reaches struct.pack is held as its little-endian      *)
(* base-256 digit string without high zero digits (0 is <<>>).  A Python   *)
(* str is a sequence of one-character strings.                             *)
(***************************************************************************)
EXTENDS Integers, Sequences, FiniteSets, TLC

\* ------------------------------------------------------------------------
\* Bounds of the model
\* ------------------------------------------------------------------------
MaxChunks == 2      \* chunks one stream delivers before it must end
MaxPcmLen == 2      \* PCM length of the framer's enumerated inputs

\* ------------------------------------------------------------------------
\* Python int arithmetic on digit strings
\* ------------------------------------------------------------------------
RECURSIVE Digits(_)
Digits(n) == IF n = 0 THEN <<>> ELSE <<n % 256>> \o Digits(n \div 256)

RECURSIVE Normalize(_)
Normalize(d) ==
    IF d = <<>> THEN <<>>
    ELSE IF d[Len(d)] = 0 THEN Normalize(SubSeq(d, 1, Len(d) - 1))
    ELSE d

RECURSIVE AddC(_, _, _)
AddC(a, b, c) ==
    IF a = <<>> /\ b = <<>> THEN (IF c = 0 THEN <<>> ELSE <<c>>)
    ELSE LET x == IF a = <<>> THEN 0 ELSE Head(a)
             y == IF b = <<>> THEN 0 ELSE Head(b)
             t == x + y + c
         IN  <<t % 256>> \o AddC(IF a = <<>> THEN <<>> ELSE Tail(a),
                                 IF b = <<>> THEN <<>> ELSE Tail(b),
                                 t \div 256)

Add(a, b) == Normalize(AddC(a, b, 0))

RECURSIVE MulDigit(_, _, _)
MulDigit(a, k, c) ==
    IF a = <<>> THEN (IF c = 0 THEN <<>> ELSE <<c>>)
    ELSE LET t == Head(a) * k + c
         IN  <<t % 256>> \o MulDigit(Tail(a), k, t \div 256)

RECURSIVE Mul(_, _)
Mul(a, b) ==
    IF b = <<>> THEN <<>>
    ELSE Add(Normalize(MulDigit(a, Head(b), 0)),
             Normalize(<<0>> \o Mul(a, Tail(b))))

\* a // k for a small positive k, most significant digit first
RECURSIVE DivRem(_, _)
DivRem(a, k) ==
    IF a = <<>> THEN [q |-> <<>>, r |-> 0]
    ELSE LET hi  == DivRem(Tail(a), k)
             cur == hi.r * 256 + Head(a)
         IN  [q |-> <<cur \div k>> \o hi.q, r |-> cur % k]

FloorDiv(a, k) == Normalize(DivRem(a, k).q)

\* ------------------------------------------------------------------------
\* struct.pack('<I', n) and struct.pack('<H', n)
\* ------------------------------------------------------------------------
Zeros(n) == [i \in 1..n |-> 0]

\* pack as a C cast would: keep the low bytes, never raise
pack_wrap(width, n) ==
    [err |-> FALSE, bytes |-> SubSeq(n \o Zeros(width), 1, width)]

\* width bytes little-endian; struct.error when n needs more bytes
pack(width, n) ==
    IF Len(n) > width
    THEN [err |-> TRUE,  bytes |-> <<>>]
    ELSE [err |-> FALSE, bytes |-> n \o Zeros(width - Len(n))]

\* struct.unpack of width bytes at a 0-based offset, as a Python int
unpack(b, offset, width) == Normalize(SubSeq(b, offset + 1, offset + width))

RIFF == <<82, 73, 70, 70>>
WAVE == <<87, 65, 86, 69>>
FMT  == <<102, 109, 116, 32>>
DATA == <<100, 97, 116, 97>>

\* ------------------------------------------------------------------------
\* convert_pcm_to_wav
\* ------------------------------------------------------------------------
\* the product masked to 32 bits before it is packed
byte_rate_masked(sample_rate, channels, sample_width) ==
    Normalize(SubSeq(Mul(Mul(sample_rate, channels), sample_width)
                     \o Zeros(4), 1, 4))

\* line 124: sample_rate * channels * sample_width, evaluated left to right
byte_rate(sample_rate, channels, sample_width) ==
    Mul(Mul(sample_rate, channels), sample_width)

convert_pcm_to_wav(pcm_data, sample_rate, channels, sample_width) ==
    LET data_size == Digits(Len(pcm_data))
        file_size == Add(Digits(36), data_size)
        f == << pack(4, file_size),
                pack(4, Digits(16)),
                pack(2, Digits(1)),
                pack(2, channels),
                pack(4, sample_rate),
                pack(4, byte_rate(sample_rate, channels, sample_width)),
                pack(2, Mul(channels, sample_width)),
                pack(2, Mul(sample_width, Digits(8))),
                pack(4, data_size) >>
    IN  IF \E i \in 1..Len(f) : f[i].err
        THEN [raised |-> TRUE, wav |-> <<>>]
        ELSE [raised |-> FALSE,
              wav |-> RIFF \o f[1].bytes \o WAVE \o FMT \o f[2].bytes
                      \o f[3].bytes \o f[4].bytes \o f[5].bytes \o f[6].bytes
                      \o f[7].bytes \o f[8].bytes \o DATA \o f[9].bytes
                      \o pcm_data]

\* ------------------------------------------------------------------------
\* str.strip() and the blank test of line 227
\* ------------------------------------------------------------------------
Whitespace == {" ", "\t", "\n", "\r"}

RECURSIVE lstrip(_)
lstrip(t) ==
    IF t # <<>> /\ Head(t) \in Whitespace THEN lstrip(Tail(t)) ELSE t

RECURSIVE rstrip(_)
rstrip(t) ==
    IF t # <<>> /\ t[Len(t)] \in Whitespace
    THEN rstrip(SubSeq(t, 1, Len(t) - 1)) ELSE t

strip(t) == rstrip(lstrip(t))

\* ------------------------------------------------------------------------
\* SpeechResult and the response mapping of lines 222-246
\* ------------------------------------------------------------------------
SpeechResult(text, state) == [text |-> text, state |-> state]

ErrorResult == SpeechResult(<<>>, "ERROR")

\* httpx.Response.raise_for_status raises HTTPStatusError unless 2xx
raise_for_status(status) == status \notin 200..299

\* the 2xx branch without the strip
TextResultUnstripped(transcribed_text) ==
    IF transcribed_text = <<>>
    THEN ErrorResult
    ELSE SpeechResult(transcribed_text, "SUCCESS")

\* lines 224-231: the 2xx branch
TextResult(transcribed_text) ==
    IF transcribed_text = <<>> \/ strip(transcribed_text) = <<>>
    THEN ErrorResult
    ELSE SpeechResult(strip(transcribed_text), "SUCCESS")

\* line 235: httpx.Response has aread/aiter_text and the property text, but
\* no attribute atext, so the attribute lookup raises AttributeError inside
\* the handler, where no further except clause applies
atext(response) == [raised |-> "AttributeError", text |-> <<>>]

\* lines 233-243: except httpx.HTTPError.  Only HTTPStatusError carries a
\* response attribute; transport errors (RequestError) do not.
HttpErrorHandler(r) ==
    IF r.kind = "response"
    THEN LET error_text == atext(r)
         IN  IF error_text.raised # ""
             THEN [escaped |-> error_text.raised, result |-> <<>>]
             ELSE [escaped |-> "", result |-> <<ErrorResult>>]
    ELSE [escaped |-> "", result |-> <<ErrorResult>>]

TransportErrors == {"ConnectError", "ReadTimeout"}

\* lines 215-246 from the point the awaited post completes with outcome r
AfterPost(r) ==
    IF r.kind = "response"
    THEN IF raise_for_status(r.status)
         THEN HttpErrorHandler(r)
         ELSE [escaped |-> "", result |-> <<TextResult(r.body)>>]
    ELSE IF r.kind \in TransportErrors
         THEN HttpErrorHandler(r)
         ELSE [escaped |-> "", result |-> <<ErrorResult>>]

\* rounding the width up instead of down
sample_width_ceil(bit_rate) == FloorDiv(Add(bit_rate, Digits(7)), 8)

\* line 195: metadata.bit_rate // 8
sample_width_of(bit_rate) == FloorDiv(bit_rate, 8)

\* lines 191-196
FrameSession(audio, md) ==
    convert_pcm_to_wav(audio, md.sample_rate, md.channel,
                       sample_width_of(md.bit_rate))

\* ------------------------------------------------------------------------
\* Environment: what the host and the remote endpoint can supply
\* ------------------------------------------------------------------------
Sessions == {"s1", "s2"}

DEFAULT_API_URL == "http://sanjeev-debian-llm-vm:9000"

Metadata(rate, ch, bits) ==
    [sample_rate |-> rate, channel |-> ch, bit_rate |-> bits]

MetadataSet ==
    { Metadata(Digits(16000), Digits(1), Digits(16)),
      Metadata(Digits(16000), Digits(1), Digits(4)),
      Metadata(Digits(16000), Digits(65536), Digits(16)) }

Chunks == { <<>>, <<65, 66>>, <<67, 68>> }

HttpResponse(status, body) ==
    [kind |-> "response", status |-> status, body |-> body]

Failure(kind) == [kind |-> kind, status |-> 0, body |-> <<>>]

Outcomes ==
    { HttpResponse(200, <<" ", "h", " ", "i", "\n">>),
      HttpResponse(200, <<" ", "\n">>),
      HttpResponse(200, <<>>),
      HttpResponse(500, <<"e">>),
      Failure("ReadTimeout"),
      Failure("ValueError") }

PcmBytes == {0, 255}

PcmInputs == UNION { [1..n -> PcmBytes] : n \in 0..MaxPcmLen }

RateInputs ==
    { <<>>, Digits(1), Digits(16000), <<255, 255, 255, 127>>,
      <<255, 255, 255, 255>>, <<0, 0, 0, 0, 1>> }

ChannelInputs == { <<>>, Digits(1), Digits(2), Digits(65535), Digits(65536) }

WidthInputs ==
    { <<>>, Digits(1), Digits(2), Digits(3), Digits(4), Digits(8192) }

FramerInputs ==
    [pcm_data : PcmInputs, sample_rate : RateInputs,
     channels : ChannelInputs, sample_width : WidthInputs]

\* ------------------------------------------------------------------------
\* State
\* ------------------------------------------------------------------------
VARIABLES
    api_url,        \* self._api_url
    client,         \* self._client
    pc,             \* per invocation: where the coroutine is
    metadata,       \* per invocation: the metadata argument
    stream,         \* per invocation: "open", "exhausted" or "failed"
    chunks,         \* per invocation: the chunks the stream has yielded
    audio_data,     \* per invocation: the local audio_data
    requests,       \* per invocation: the POSTs it issued
    responses,      \* per invocation: the outcomes its POST completed with
    result,         \* per invocation: the SpeechResult it returned
    escaped,        \* per invocation: the exception that left the coroutine
    cancelled,      \* per invocation: the await at which the host cancelled it
    f_pc,           \* framer harness: "unused", "call", "returned", "raised"
    f_args,         \* framer harness: the arguments of the call
    f_out           \* framer harness: the bytes returned

provider == <<api_url, client>>
session  == <<pc, metadata, stream, chunks, audio_data, requests, responses,
              result, escaped, cancelled>>
framer   == <<f_pc, f_args, f_out>>
vars     == <<api_url, client, pc, metadata, stream, chunks, audio_data,
              requests, responses, result, escaped, cancelled, f_pc, f_args,
              f_out>>

NoArgs == [pcm_data |-> <<>>, sample_rate |-> <<>>, channels |-> <<>>,
           sample_width |-> <<>>]

\* async_get_engine / __init__: the provider is built once
ProviderInit ==
    /\ api_url = DEFAULT_API_URL
    /\ client = "hass_httpx_client"

SessionInit ==
    /\ pc = [s \in Sessions |-> "idle"]
    /\ metadata = [s \in Sessions |-> Metadata(<<>>, <<>>, <<>>)]
    /\ stream = [s \in Sessions |-> "open"]
    /\ chunks = [s \in Sessions |-> <<>>]
    /\ audio_data = [s \in Sessions |-> <<>>]
    /\ requests = [s \in Sessions |-> <<>>]
    /\ responses = [s \in Sessions |-> <<>>]
    /\ result = [s \in Sessions |-> <<>>]
    /\ escaped = [s \in Sessions |-> ""]
    /\ cancelled = [s \in Sessions |-> ""]

Init ==
    /\ ProviderInit
    /\ SessionInit
    /\ f_pc = "unused"
    /\ f_args = NoArgs
    /\ f_out = <<>>

\* ------------------------------------------------------------------------
\* async_process_audio_stream, one action per stretch between awaits
\* ------------------------------------------------------------------------
\* the chunk put in front of the buffer
AppendChunkFront(audio, chunk) == chunk \o audio

\* line 185
AppendChunk(audio, chunk) == audio \o chunk

\* the buffer kept on the provider instance, shared by all invocations
StoreChunkShared(buf, s, chunk) ==
    [t \in Sessions |-> AppendChunk(buf[t], chunk)]

\* audio_data is a local of the coroutine frame: one buffer per invocation
StoreChunk(buf, s, chunk) == [buf EXCEPT ![s] = AppendChunk(@, chunk)]

\* lines 175-184: the host invokes the method; it suspends on the stream
Start(s) ==
    /\ pc[s] = "idle"
    /\ \E md \in MetadataSet : metadata' = [metadata EXCEPT ![s] = md]
    /\ audio_data' = [audio_data EXCEPT ![s] = <<>>]
    /\ pc' = [pc EXCEPT ![s] = "draining"]
    /\ UNCHANGED <<provider, stream, chunks, requests, responses, result,
                   escaped, cancelled, framer>>

\* the chunk uploaded as soon as it arrives
NextChunkStreaming(s) ==
    /\ pc[s] = "draining"
    /\ Len(chunks[s]) < MaxChunks
    /\ \E chunk \in Chunks :
          /\ chunks' = [chunks EXCEPT ![s] = Append(@, chunk)]
          /\ audio_data' = StoreChunk(audio_data, s, chunk)
          /\ requests' = [requests EXCEPT ![s] =
                 Append(@, [url |-> <<api_url, "/asr">>, wav |-> chunk])]
    /\ UNCHANGED <<provider, pc, metadata, stream, responses, result,
                   escaped, cancelled, framer>>

\* lines 184-185: the stream yields a chunk
NextChunk(s) ==
    /\ pc[s] = "draining"
    /\ Len(chunks[s]) < MaxChunks
    /\ \E chunk \in Chunks :
          /\ chunks' = [chunks EXCEPT ![s] = Append(@, chunk)]
          /\ audio_data' = StoreChunk(audio_data, s, chunk)
    /\ UNCHANGED <<provider, pc, metadata, stream, requests, responses,
                   result, escaped, cancelled, framer>>

\* lines 184-215: the stream ends; frame, build the request, await the post.
\* struct.error from the framer is caught by except Exception (244-246).
StreamEnd(s) ==
    /\ pc[s] = "draining"
    /\ stream' = [stream EXCEPT ![s] = "exhausted"]
    /\ LET wav_audio == FrameSession(audio_data[s], metadata[s])
       IN  IF wav_audio.raised
           THEN /\ result' = [result EXCEPT ![s] = <<ErrorResult>>]
                /\ pc' = [pc EXCEPT ![s] = "returned"]
                /\ UNCHANGED requests
           ELSE /\ requests' = [requests EXCEPT ![s] =
                       Append(@, [url |-> <<api_url, "/asr">>,
                                  wav |-> wav_audio.wav])]
                /\ pc' = [pc EXCEPT ![s] = "awaiting_response"]
                /\ UNCHANGED result
    /\ UNCHANGED <<provider, metadata, chunks, audio_data, responses,
                   escaped, cancelled, framer>>

\* line 184: the stream raises; the loop is outside the try of line 189
StreamRaise(s) ==
    /\ pc[s] = "draining"
    /\ stream' = [stream EXCEPT ![s] = "failed"]
    /\ escaped' = [escaped EXCEPT ![s] = "StreamError"]
    /\ pc' = [pc EXCEPT ![s] = "raised"]
    /\ UNCHANGED <<provider, metadata, chunks, audio_data, requests,
                   responses, result, cancelled, framer>>

\* lines 215-246: the awaited post completes
Respond(s) ==
    /\ pc[s] = "awaiting_response"
    /\ \E r \in Outcomes :
          LET after == AfterPost(r)
          IN  /\ responses' = [responses EXCEPT ![s] = Append(@, r)]
              /\ result' = [result EXCEPT ![s] = after.result]
              /\ escaped' = [escaped EXCEPT ![s] = after.escaped]
              /\ pc' = [pc EXCEPT ![s] =
                          IF after.escaped = "" THEN "returned" ELSE "raised"]
    /\ UNCHANGED <<provider, metadata, stream, chunks, audio_data, requests,
                   cancelled, framer>>

\* the cancellation of the post caught like an ordinary exception
CancelCaught(at) ==
    IF at = "awaiting_response"
    THEN [escaped |-> "", result |-> <<ErrorResult>>]
    ELSE [escaped |-> "CancelledError", result |-> <<>>]

\* asyncio.CancelledError is a BaseException: neither except clause of
\* lines 233 and 244 catches it, and the drain loop has no handler at all
CancelOutcome(at) == [escaped |-> "CancelledError", result |-> <<>>]

\* the host cancels the task while it is suspended at line 184 or line 215
Cancel(s) ==
    /\ pc[s] \in {"draining", "awaiting_response"}
    /\ cancelled' = [cancelled EXCEPT ![s] = pc[s]]
    /\ LET after == CancelOutcome(pc[s])
       IN  /\ escaped' = [escaped EXCEPT ![s] = after.escaped]
           /\ result' = [result EXCEPT ![s] = after.result]
           /\ pc' = [pc EXCEPT ![s] =
                       IF after.escaped = "" THEN "returned" ELSE "raised"]
    /\ UNCHANGED <<provider, metadata, stream, chunks, audio_data, requests,
                   responses, framer>>

Next ==
    \E s \in Sessions :
        \/ Start(s)
        \/ NextChunk(s)
        \/ StreamEnd(s)
        \/ StreamRaise(s)
        \/ Respond(s)
        \/ Cancel(s)

Spec == Init /\ [][Next]_vars

\* ------------------------------------------------------------------------
\* convert_pcm_to_wav called directly on enumerated arguments
\* ------------------------------------------------------------------------
InitFramer ==
    /\ ProviderInit
    /\ SessionInit
    /\ f_pc = "call"
    /\ f_args \in FramerInputs
    /\ f_out = <<>>

FramerCall ==
    /\ f_pc = "call"
    /\ LET r == convert_pcm_to_wav(f_args.pcm_data, f_args.sample_rate,
                                   f_args.channels, f_args.sample_width)
       IN  /\ f_out' = r.wav
           /\ f_pc' = IF r.raised THEN "raised" ELSE "returned"
    /\ UNCHANGED <<f_args, provider, session>>

FramerNext ==
    /\ f_pc \in {"returned", "raised"}
    /\ f_args' \in FramerInputs
    /\ f_pc' = "call"
    /\ f_out' = <<>>
    /\ UNCHANGED <<provider, session>>

NextFramer == FramerCall \/ FramerNext

SpecFramer == InitFramer /\ [][NextFramer]_vars

\* ------------------------------------------------------------------------
\* Vocabulary of the properties
\* ------------------------------------------------------------------------
RECURSIVE Concat(_)
Concat(cs) == IF cs = <<>> THEN <<>> ELSE Head(cs) \o Concat(Tail(cs))

\* the value of a digit string of at most three digits
ToInt(d) ==
    (IF Len(d) >= 1 THEN d[1] ELSE 0)
    + (IF Len(d) >= 2 THEN d[2] * 256 ELSE 0)
    + (IF Len(d) >= 3 THEN d[3] * 65536 ELSE 0)

Blank(t) == \A i \in 1..Len(t) : t[i] \in Whitespace

\* t is body without its leading and trailing whitespace, and is not empty
IsTrimOf(t, body) ==
    /\ t # <<>>
    /\ t[1] \notin Whitespace
    /\ t[Len(t)] \notin Whitespace
    /\ \E i \in 0..Len(body) :
          /\ i + Len(t) <= Len(body)
          /\ SubSeq(body, i + 1, i + Len(t)) = t
          /\ \A k \in 1..i : body[k] \in Whitespace
          /\ \A k \in (i + Len(t) + 1)..Len(body) : body[k] \in Whitespace

Is2xx(r) == r.kind = "response" /\ r.status >= 200 /\ r.status <= 299

IsHttpLevelError(r) ==
    \/ r.kind = "response" /\ ~Is2xx(r)
    \/ r.kind \in TransportErrors

Payload(wav) == SubSeq(wav, 45, Len(wav))

\* ------------------------------------------------------------------------
\* C1.  Whenever the chunk stream ended normally and the POST ended in an
\* HTTP-level error (a non-2xx status, with or without a body, or a
\* transport failure such as the timeout), the method returns
\* {"", ERROR} and raises nothing.
\* ------------------------------------------------------------------------
C1_HttpErrorReturnsError ==
    \A s \in Sessions :
        (/\ stream[s] = "exhausted"
         /\ responses[s] # <<>>
         /\ IsHttpLevelError(responses[s][1]))
        => /\ pc[s] = "returned"
           /\ escaped[s] = ""
           /\ result[s] = <<ErrorResult>>

\* ------------------------------------------------------------------------
\* C2.  No fault escapes the method: an invocation that was not cancelled
\* never ends with an exception leaving the coroutine, and one whose stream
\* raised, whose framing raised or whose exchange failed has returned
\* exactly one {"", ERROR}.
\* ------------------------------------------------------------------------
C2_NoFaultEscapes ==
    \A s \in Sessions :
        cancelled[s] = ""
        => /\ escaped[s] = ""
           /\ pc[s] # "raised"
           /\ (stream[s] = "failed" => result[s] = <<ErrorResult>>)

\* ------------------------------------------------------------------------
\* C3.  Every returned result is well-formed: {"", ERROR}, or
\* {text, SUCCESS} with text non-empty, free of leading and trailing
\* whitespace and equal to the trimmed body of the 2xx response of that
\* invocation.  A 2xx response with a blank body gives {"", ERROR}, one with
\* a non-blank body gives {trimmed body, SUCCESS}.
\* ------------------------------------------------------------------------
C3_ResultWellFormed ==
    \A s \in Sessions :
        /\ Len(result[s]) <= 1
        /\ result[s] # <<>> =>
              \/ result[s][1] = ErrorResult
              \/ /\ result[s][1].state = "SUCCESS"
                 /\ responses[s] # <<>>
                 /\ Is2xx(responses[s][1])
                 /\ IsTrimOf(result[s][1].text, responses[s][1].body)
        /\ (responses[s] # <<>> /\ Is2xx(responses[s][1])) =>
              /\ pc[s] = "returned"
              /\ Len(result[s]) = 1
              /\ IF Blank(responses[s][1].body)
                 THEN result[s][1] = ErrorResult
                 ELSE /\ result[s][1].state = "SUCCESS"
                      /\ IsTrimOf(result[s][1].text, responses[s][1].body)

C3_Witness ==
    \E s, t \in Sessions :
        /\ result[s] = <<SpeechResult(<<"h", " ", "i">>, "SUCCESS")>>
        /\ responses[s][1].body = <<" ", "h", " ", "i", "\n">>
        /\ responses[t] = <<HttpResponse(200, <<" ", "\n">>)>>
        /\ result[t] = <<ErrorResult>>

\* ------------------------------------------------------------------------
\* C4.  Whenever convert_pcm_to_wav returns, the output is 44 + len(pcm)
\* bytes long, starts with RIFF, has WAVE at [8:12], 36 + len(pcm) at offset
\* 4 and len(pcm) at offset 40 (little-endian uint32), carries pcm unchanged
\* from offset 44, and its header parses back to rate, channels, width*8 and
\* len(pcm).
\* ------------------------------------------------------------------------
C4_FrameLayout ==
    f_pc = "returned" =>
        LET n == Len(f_args.pcm_data)
        IN  /\ Len(f_out) = 44 + n
            /\ SubSeq(f_out, 1, 4) = RIFF
            /\ SubSeq(f_out, 9, 12) = WAVE
            /\ unpack(f_out, 4, 4) = Digits(36 + n)
            /\ unpack(f_out, 40, 4) = Digits(n)
            /\ Payload(f_out) = f_args.pcm_data
            /\ unpack(f_out, 24, 4) = f_args.sample_rate
            /\ unpack(f_out, 22, 2) = f_args.channels
            /\ unpack(f_out, 34, 2) = Mul(f_args.sample_width, Digits(8))
            /\ (n = 0 => Len(f_out) = 44 /\ unpack(f_out, 40, 4) = <<>>)

C4_Witness ==
    /\ f_pc = "returned"
    /\ f_args.pcm_data = <<0, 255>>
    /\ f_args.sample_rate = <<255, 255, 255, 255>>
    /\ f_args.channels = Digits(1)
    /\ f_args.sample_width = Digits(1)
    /\ Len(f_out) = 46

\* ------------------------------------------------------------------------
\* C5.  Arguments within the stated preconditions
\* ------------------------------------------------------------------------
WellFormedArgs(a) ==
    /\ a.sample_rate # <<>> /\ Len(a.sample_rate) <= 4
    /\ a.channels # <<>> /\ Len(a.channels) <= 2
    /\ a.sample_width \in {Digits(1), Digits(2), Digits(3), Digits(4)}

\* C5 as stated: on every uint32 sample rate >= 1, uint16 channel count
\* >= 1 and sample width in 1..4, convert_pcm_to_wav returns and raises
\* nothing.
C5_NeverFails ==
    (f_pc # "call" /\ WellFormedArgs(f_args)) => f_pc = "returned"

\* C5 as amended: on such arguments convert_pcm_to_wav returns exactly when
\* sample_rate*channels*sample_width fits 32 bits and
\* channels*sample_width fits 16 bits, and raises struct.error otherwise.
C5_FailsExactlyOnOverflow ==
    (f_pc # "call" /\ WellFormedArgs(f_args)) =>
        (f_pc = "returned" <=>
            /\ Len(Mul(Mul(f_args.sample_rate, f_args.channels),
                       f_args.sample_width)) <= 4
            /\ Len(Mul(f_args.channels, f_args.sample_width)) <= 2)

C5_Witness ==
    /\ f_pc = "raised"
    /\ f_args.sample_rate = <<255, 255, 255, 255>>
    /\ f_args.channels = Digits(2)
    /\ f_args.sample_width = Digits(2)

\* ------------------------------------------------------------------------
\* C6.  The stream is drained before any network activity: a POST exists
\* only once the stream has ended, there is at most one POST per
\* invocation, and no result exists before the stream has ended.
\* ------------------------------------------------------------------------
C6_DrainThenOnePost ==
    \A s \in Sessions :
        /\ Len(requests[s]) <= 1
        /\ requests[s] # <<>> => stream[s] = "exhausted"
        /\ result[s] # <<>> => stream[s] = "exhausted"
        /\ Len(responses[s]) <= Len(requests[s])

C6_Witness ==
    \E s \in Sessions :
        /\ pc[s] = "returned"
        /\ Len(chunks[s]) = 2
        /\ responses[s] = <<Failure("ReadTimeout")>>
        /\ Len(requests[s]) = 1
        /\ result[s] = <<ErrorResult>>

\* ------------------------------------------------------------------------
\* C7.  The buffer is the concatenation, in arrival order, of the chunks
\* the stream delivered, and so is the payload of the uploaded container.
\* ------------------------------------------------------------------------
C7_OrderPreservingConcat ==
    \A s \in Sessions :
        /\ pc[s] # "idle" => audio_data[s] = Concat(chunks[s])
        /\ requests[s] # <<>> =>
              Payload(requests[s][1].wav) = Concat(chunks[s])

C7_Witness ==
    \E s \in Sessions :
        /\ chunks[s] = << <<65, 66>>, <<67, 68>> >>
        /\ requests[s] # <<>>
        /\ Payload(requests[s][1].wav) = <<65, 66, 67, 68>>

\* ------------------------------------------------------------------------
\* C8.  Concurrent invocations are independent: each uploads the container
\* of its own chunks and metadata, each result comes from the response to
\* its own request, and the provider's URL and client never change.
\* ------------------------------------------------------------------------
C8_SessionsIndependent ==
    /\ api_url = DEFAULT_API_URL
    /\ client = "hass_httpx_client"
    /\ \A s \in Sessions :
          /\ requests[s] # <<>> =>
                /\ requests[s][1].url = <<DEFAULT_API_URL, "/asr">>
                /\ requests[s][1].wav =
                      convert_pcm_to_wav(Concat(chunks[s]),
                          metadata[s].sample_rate, metadata[s].channel,
                          FloorDiv(metadata[s].bit_rate, 8)).wav
                /\ Payload(requests[s][1].wav) = Concat(chunks[s])
          /\ (result[s] # <<>> /\ responses[s] # <<>>) =>
                \/ result[s][1] = ErrorResult
                \/ IsTrimOf(result[s][1].text, responses[s][1].body)

C8_Witness ==
    \E s, t \in Sessions :
        /\ s # t
        /\ pc[s] = "awaiting_response"
        /\ pc[t] = "draining"
        /\ chunks[s] = << <<65, 66>> >>
        /\ chunks[t] = << <<67, 68>> >>
        /\ metadata[s] # metadata[t]
        /\ Payload(requests[s][1].wav) = <<65, 66>>

\* ------------------------------------------------------------------------
\* C9.  A cancellation at either await ends the invocation without a
\* result: CancelledError leaves the coroutine, no {"", ERROR} is produced,
\* and an invocation cancelled while draining has issued no POST.
\* ------------------------------------------------------------------------
C9_CancelPropagates ==
    \A s \in Sessions :
        cancelled[s] # "" =>
            /\ pc[s] = "raised"
            /\ escaped[s] = "CancelledError"
            /\ result[s] = <<>>
            /\ (cancelled[s] = "draining" => requests[s] = <<>>)

C9_Witness ==
    \E s, t \in Sessions :
        /\ cancelled[s] = "draining"
        /\ chunks[s] # <<>>
        /\ cancelled[t] = "awaiting_response"
        /\ requests[t] # <<>>

\* ------------------------------------------------------------------------
\* C10.  The framer gets floor(bitDepth / 8): the uploaded header carries
\* 8*floor(bitDepth/8) bits per sample and channels*floor(bitDepth/8) block
\* alignment, so the header's bits per sample equal the bit depth exactly
\* when it is a multiple of 8; other bit depths, those below 8 included, are
\* not rejected and the request is sent.
\* ------------------------------------------------------------------------
C10_WidthIsFloor ==
    \A s \in Sessions :
        LET bits == ToInt(metadata[s].bit_rate)
        IN  /\ requests[s] # <<>> =>
                /\ unpack(requests[s][1].wav, 34, 2) =
                      Digits(8 * (bits \div 8))
                /\ unpack(requests[s][1].wav, 32, 2) =
                      Mul(metadata[s].channel, Digits(bits \div 8))
                /\ (unpack(requests[s][1].wav, 34, 2) = metadata[s].bit_rate
                      <=> bits % 8 = 0)
            /\ (stream[s] = "exhausted" /\ Len(metadata[s].channel) <= 2) =>
                  requests[s] # <<>>

C10_Witness ==
    \E s, t \in Sessions :
        /\ metadata[s].bit_rate = Digits(4)
        /\ requests[s] # <<>>
        /\ unpack(requests[s][1].wav, 34, 2) = <<>>
        /\ metadata[t].bit_rate = Digits(16)
        /\ requests[t] # <<>>
        /\ unpack(requests[t][1].wav, 34, 2) = Digits(16)

====
